---- MODULE Spec2Model ----
(***************************************************************************)
(* Model of the windows_unit_tests plugin stub                             *)
(* (platform_tests/windows_unit_tests/windows/windows_unit_tests_plugin.cpp) *)
(*                                                                         *)
(* The plugin has two operations:                                          *)
(*   RegisterWithRegistrar  creates a MethodChannel named                  *)
(*       "windows_unit_tests", installs a handler that captures a raw      *)
(*       pointer to a freshly created plugin, and hands the plugin to the  *)
(*       registrar (AddPlugin).                                            *)
(*   HandleMethodCall  compares the method name with "placeholder" and     *)
(*       answers Success(true) or NotImplemented on the result sink.       *)
(*                                                                         *)
(* The host (registrar, messenger, engine) is the environment: it calls    *)
(* RegisterWithRegistrar, delivers method calls on channels, and tears the *)
(* registrar down.  The platform thread runs one callback at a time, so a  *)
(* delivered call is dispatched before the host does anything else.        *)
(***************************************************************************)
EXTENDS Integers, Sequences, FiniteSets, TLC

VARIABLES
    registrar,          \* "alive" | "destroyed": the host's PluginRegistrarWindows
    plugins,            \* registrar's plugin registry: the plugin instances it owns
    alive,              \* plugin instances constructed and not yet destroyed
    created,            \* number of plugin instances constructed so far
    handlers,           \* messenger: channel name -> installed handler (or None)
    channelsDestroyed,  \* MethodChannel objects that went out of scope
    inflight,           \* the call being dispatched by the callback, or None
    log                 \* calls that have returned to the host, oldest first

vars == <<registrar, plugins, alive, created, handlers, channelsDestroyed,
          inflight, log>>

(***************************************************************************)
(* Bounds of the model.                                                    *)
(***************************************************************************)
MaxCalls == 2
MaxRegistrations == 2

\* An empty std::function, an absent call.
None == [none |-> TRUE]

(***************************************************************************)
(* Strings are sequences of characters; a character is compared by its     *)
(* code, as std::char_traits<char> does.                                   *)
(***************************************************************************)
CharCode ==
    [c \in {"A", "C", "D", "E", "H", "L", "O", "P", "R",
            "a", "c", "d", "e", "h", "l", "o", "p", "r", "x"} |->
        CASE c = "A" -> 65  [] c = "C" -> 67  [] c = "D" -> 68
          [] c = "E" -> 69  [] c = "H" -> 72  [] c = "L" -> 76
          [] c = "O" -> 79  [] c = "P" -> 80  [] c = "R" -> 82
          [] c = "a" -> 97  [] c = "c" -> 99  [] c = "d" -> 100
          [] c = "e" -> 101 [] c = "h" -> 104 [] c = "l" -> 108
          [] c = "o" -> 111 [] c = "p" -> 112 [] c = "r" -> 114
          [] c = "x" -> 120]

\* The literal "placeholder" of HandleMethodCall.
kPlaceholder == <<"p", "l", "a", "c", "e", "h", "o", "l", "d", "e", "r">>

\* Variant: the channel is created under another name.
kChannelName_Other == "windows_unit_tests_other"

\* The literal channel name of RegisterWithRegistrar.
kChannelName == "windows_unit_tests"

(***************************************************************************)
(* Inputs of the host.                                                     *)
(***************************************************************************)
\* Method names a call may carry: the exact name, the empty name, names
\* differing only in case, and names with "placeholder" as a proper prefix or
\* suffix, and a proper prefix of "placeholder".
MethodNames ==
    { <<"p", "l", "a", "c", "e", "h", "o", "l", "d", "e", "r">>,
      << >>,
      <<"P", "l", "a", "c", "e", "h", "o", "l", "d", "e", "r">>,
      <<"P", "L", "A", "C", "E", "H", "O", "L", "D", "E", "R">>,
      <<"p", "l", "a", "c", "e", "h", "o", "l", "d", "e", "r", "x">>,
      <<"x", "p", "l", "a", "c", "e", "h", "o", "l", "d", "e", "r">>,
      <<"p", "l", "a", "c", "e", "h", "o", "l", "d", "e">> }

\* Argument values of a call (an EncodableValue; "null" is a call without
\* arguments).
Arguments == {"null", "map"}

\* Channel names the host's messenger routes on.
Channels == {"windows_unit_tests", "windows_unit_tests_other"}

\* Variant: the comparison stops at the end of the shorter string and
\* ignores the lengths.
RECURSIVE compare_Prefix(_, _)
compare_Prefix(s, t) ==
    IF s = << >> \/ t = << >> THEN 0
    ELSE IF CharCode[Head(s)] < CharCode[Head(t)] THEN -1
    ELSE IF CharCode[Head(s)] > CharCode[Head(t)] THEN 1
    ELSE compare_Prefix(Tail(s), Tail(t))

(***************************************************************************)
(* std::string::compare against a C string: the sign of the lexicographic  *)
(* comparison of the common prefix, then of the length difference.         *)
(***************************************************************************)
RECURSIVE compare(_, _)
compare(s, t) ==
    IF s = << >> /\ t = << >> THEN 0
    ELSE IF s = << >> THEN -1
    ELSE IF t = << >> THEN 1
    ELSE IF CharCode[Head(s)] < CharCode[Head(t)] THEN -1
    ELSE IF CharCode[Head(s)] > CharCode[Head(t)] THEN 1
    ELSE compare(Tail(s), Tail(t))

(***************************************************************************)
(* The result sink (flutter::MethodResult): the operations called on it.   *)
(***************************************************************************)
EncodableValue(b) == [type |-> "bool", val |-> b]
Success(value) == [kind |-> "Success", value |-> value]
NotImplemented == [kind |-> "NotImplemented"]
Error == [kind |-> "Error"]

\* What one run of the callback leaves behind: the sink operations it
\* called, in order, and whether it faulted.
Outcome(responses, fault) == [responses |-> responses, fault |-> fault]

\* Calling through a pointer to a destroyed plugin is undefined: any sink
\* operations, in any order, with or without a fault.
UndefinedOutcomes ==
    LET ops == {Success(EncodableValue(TRUE)), Success(EncodableValue(FALSE)),
                NotImplemented, Error}
    IN  { Outcome(r, f) :
            r \in {<< >>} \cup {<<a>> : a \in ops}
                          \cup {<<a, b>> : a \in ops, b \in ops},
            f \in BOOLEAN }

(***************************************************************************)
(* Variants of HandleMethodCall with one slip each.                        *)
(***************************************************************************)
\* The success value is false.
HandleMethodCall_FalseValue(method_call) ==
    IF compare(method_call.method_name, kPlaceholder) = 0
    THEN <<Success(EncodableValue(FALSE))>>
    ELSE <<NotImplemented>>

\* The else is missing: NotImplemented is called after Success too.
HandleMethodCall_FallThrough(method_call) ==
    IF compare(method_call.method_name, kPlaceholder) = 0
    THEN <<Success(EncodableValue(TRUE)), NotImplemented>>
    ELSE <<NotImplemented>>

\* The plugin remembers that it answered: "placeholder" succeeds only once.
HandleMethodCall_Stateful(method_call) ==
    IF /\ compare(method_call.method_name, kPlaceholder) = 0
       /\ \A i \in 1..Len(log) : log[i].handledBy # "HandleMethodCall"
    THEN <<Success(EncodableValue(TRUE))>>
    ELSE <<NotImplemented>>

\* An unknown method is reported with the sink's error response.
HandleMethodCall_ErrorOnUnknown(method_call) ==
    IF compare(method_call.method_name, kPlaceholder) = 0
    THEN <<Success(EncodableValue(TRUE))>>
    ELSE <<Error>>

\* The sink of a "placeholder" call is kept for later instead of answered.
HandleMethodCall_Deferred(method_call) ==
    IF compare(method_call.method_name, kPlaceholder) = 0
    THEN << >>
    ELSE <<NotImplemented>>

(***************************************************************************)
(* WindowsUnitTestsPlugin::HandleMethodCall: the sink operations the       *)
(* handler calls for a method call, in order.                              *)
(***************************************************************************)
HandleMethodCall(method_call) ==
    IF compare(method_call.method_name, kPlaceholder) = 0
    THEN <<Success(EncodableValue(TRUE))>>
    ELSE <<NotImplemented>>

\* The installed lambda: calls HandleMethodCall through the captured raw
\* plugin pointer.
MethodCallHandler(handler, method_call) ==
    IF handler.plugin_pointer \in alive
    THEN {Outcome(HandleMethodCall(method_call), FALSE)}
    ELSE UndefinedOutcomes

(***************************************************************************)
(* The pieces of RegisterWithRegistrar.                                    *)
(***************************************************************************)
\* Variant: the handler is never installed.
SetMethodCallHandler_NotInstalled(installed, name, handler) == installed

\* channel->SetMethodCallHandler(lambda): the messenger keeps the handler
\* under the channel's name.
SetMethodCallHandler(installed, name, handler) ==
    [installed EXCEPT ![name] = handler]

\* Variant: the plugin is not handed to the registry.
AddPlugin_NotTaken(registry, plugin) == registry

\* registrar->AddPlugin(std::move(plugin)): the registry takes the instance.
AddPlugin(registry, plugin) == registry \cup {plugin}

\* End of RegisterWithRegistrar's scope: the local unique_ptr destroys the
\* plugin unless it was moved into the registry.
LeaveScope(live, plugin, registry) ==
    IF plugin \in registry THEN live ELSE live \ {plugin}

Init ==
    /\ registrar = "alive"
    /\ plugins = {}
    /\ alive = {}
    /\ created = 0
    /\ handlers = [c \in Channels |-> None]
    /\ channelsDestroyed = 0
    /\ inflight = None
    /\ log = << >>

(***************************************************************************)
(* WindowsUnitTestsPlugin::RegisterWithRegistrar, called by the host on    *)
(* the platform thread.                                                    *)
(***************************************************************************)
RegisterWithRegistrar ==
    /\ registrar = "alive"
    /\ inflight = None
    /\ created < MaxRegistrations
    /\ LET plugin == created + 1
           handler == [plugin_pointer |-> plugin]
           registry == AddPlugin(plugins, plugin)
       IN  /\ created' = created + 1
           /\ handlers' = SetMethodCallHandler(handlers, kChannelName, handler)
           /\ plugins' = registry
           /\ alive' = LeaveScope(alive \cup {plugin}, plugin, registry)
           /\ channelsDestroyed' = channelsDestroyed + 1
    /\ UNCHANGED <<registrar, inflight, log>>

(***************************************************************************)
(* The host delivers a method call on a channel that has a handler: the    *)
(* messenger invokes the installed lambda.                                 *)
(***************************************************************************)
HostDeliver ==
    /\ registrar = "alive"
    /\ inflight = None
    /\ Len(log) < MaxCalls
    /\ \E channel \in Channels, name \in MethodNames, args \in Arguments :
        /\ handlers[channel] # None
        /\ inflight' = [channel |-> channel,
                        handler |-> handlers[channel],
                        method_call |-> [method_name |-> name,
                                         arguments |-> args]]
    /\ UNCHANGED <<registrar, plugins, alive, created, handlers,
                   channelsDestroyed, log>>

\* The host delivers a method call on a channel without a handler: no
\* plugin code runs.
HostDeliverUnhandled ==
    /\ registrar = "alive"
    /\ inflight = None
    /\ Len(log) < MaxCalls
    /\ \E channel \in Channels, name \in MethodNames, args \in Arguments :
        /\ handlers[channel] = None
        /\ log' = Append(log, [channel |-> channel,
                               method_name |-> name,
                               arguments |-> args,
                               registrations |-> created,
                               handledBy |-> "nobody",
                               responses |-> << >>,
                               fault |-> FALSE])
    /\ UNCHANGED <<registrar, plugins, alive, created, handlers,
                   channelsDestroyed, inflight>>

(***************************************************************************)
(* The callback runs: the lambda calls HandleMethodCall, which answers on  *)
(* the result sink and returns to the host.                                *)
(***************************************************************************)
Dispatch ==
    /\ inflight # None
    /\ \E o \in MethodCallHandler(inflight.handler, inflight.method_call) :
        log' = Append(log, [channel |-> inflight.channel,
                            method_name |-> inflight.method_call.method_name,
                            arguments |-> inflight.method_call.arguments,
                            registrations |-> created,
                            handledBy |-> "HandleMethodCall",
                            plugin_pointer |-> inflight.handler.plugin_pointer,
                            responses |-> o.responses,
                            fault |-> o.fault])
    /\ inflight' = None
    /\ UNCHANGED <<registrar, plugins, alive, created, handlers,
                   channelsDestroyed>>

(***************************************************************************)
(* The host tears the registrar down (engine shutdown): the registry       *)
(* destroys the plugins it owns and the messenger goes with it, so nothing *)
(* is delivered afterwards.                                                *)
(***************************************************************************)
HostDestroyRegistrar ==
    /\ registrar = "alive"
    /\ inflight = None
    /\ registrar' = "destroyed"
    /\ alive' = alive \ plugins
    /\ plugins' = {}
    /\ handlers' = [c \in Channels |-> None]
    /\ UNCHANGED <<created, channelsDestroyed, inflight, log>>

Next ==
    \/ RegisterWithRegistrar
    \/ HostDeliver
    \/ HostDeliverUnhandled
    \/ Dispatch
    \/ HostDestroyRegistrar

Spec == Init /\ [][Next]_vars

(***************************************************************************)
(* Properties.                                                             *)
(***************************************************************************)
\* The names the properties speak about, written out independently of the
\* literals of the code.
PlaceholderName == <<"p", "l", "a", "c", "e", "h", "o", "l", "d", "e", "r">>
UpperCaseName == <<"P", "L", "A", "C", "E", "H", "O", "L", "D", "E", "R">>
ExtendedName == <<"p", "l", "a", "c", "e", "h", "o", "l", "d", "e", "r", "x">>
UnitTestsChannel == "windows_unit_tests"

\* The calls of the log that HandleMethodCall answered.
Handled == {i \in 1..Len(log) : log[i].handledBy = "HandleMethodCall"}

SuccessTrue == [kind |-> "Success", value |-> [type |-> "bool", val |-> TRUE]]
NotImpl == [kind |-> "NotImplemented"]

Kinds(i) == {log[i].responses[k].kind : k \in 1..Len(log[i].responses)}

\* C1: every call named exactly "placeholder", whatever its arguments, gets
\* the success response carrying true and no not-implemented response.
C1_PlaceholderSucceeds ==
    \A i \in Handled :
        log[i].method_name = PlaceholderName
            => /\ log[i].responses = <<SuccessTrue>>
               /\ "NotImplemented" \notin Kinds(i)

\* "placeholder" was answered both without arguments and with arguments.
C1_Witness ==
    \E i, j \in Handled :
        /\ log[i].method_name = PlaceholderName /\ log[i].arguments = "null"
        /\ log[j].method_name = PlaceholderName /\ log[j].arguments = "map"
        /\ log[i].responses = <<SuccessTrue>>
        /\ log[j].responses = <<SuccessTrue>>

\* C2: every call with a name other than "placeholder" (empty, other case,
\* "placeholder" as a proper prefix or suffix) gets not-implemented and never
\* a success response.
C2_OtherNamesNotImplemented ==
    \A i \in Handled :
        log[i].method_name # PlaceholderName
            => /\ log[i].responses = <<NotImpl>>
               /\ "Success" \notin Kinds(i)

\* An upper-case name and a name extending "placeholder" were both answered
\* not-implemented.
C2_Witness ==
    \E i, j \in Handled :
        /\ log[i].method_name = UpperCaseName
        /\ log[j].method_name = ExtendedName
        /\ log[i].responses = <<NotImpl>>
        /\ log[j].responses = <<NotImpl>>

\* C3: every invocation of HandleMethodCall delivers exactly one terminal
\* response: not zero, not two, not both success and not-implemented.
C3_ExactlyOneResponse ==
    \A i \in Handled :
        /\ Len(log[i].responses) = 1
        /\ log[i].responses[1].kind \in {"Success", "NotImplemented"}
        /\ ~ ({"Success", "NotImplemented"} \subseteq Kinds(i))

\* Both branches were taken, each with one response.
C3_Witness ==
    \E i, j \in Handled :
        /\ log[i].responses = <<SuccessTrue>>
        /\ log[j].responses = <<NotImpl>>

C5_OnlyNotImplemented ==
    \A i \in Handled :
        /\ ~ log[i].fault
        /\ log[i].responses # << >>
        /\ "Error" \notin Kinds(i)
        /\ ("NotImplemented" \in Kinds(i)) <=> (log[i].method_name # PlaceholderName)

\* An unknown name ended in not-implemented and "placeholder" did not.
C5_Witness ==
    \E i, j \in Handled :
        /\ log[i].method_name = << >>
        /\ "NotImplemented" \in Kinds(i)
        /\ log[j].method_name = PlaceholderName
        /\ "NotImplemented" \notin Kinds(j)

\* C6: one call of RegisterWithRegistrar installs one handler, on channel
\* "windows_unit_tests", bound to the one plugin instance it adds to the
\* registry, and does nothing else: no handler on another channel, no
\* response.
C6_RegistrationFrame ==
    [][created' # created
        => /\ created' = created + 1
           /\ Cardinality(plugins') = Cardinality(plugins) + 1
           /\ plugins \subseteq plugins'
           /\ alive' = alive \cup (plugins' \ plugins)
           /\ handlers'[UnitTestsChannel] # None
           /\ {handlers'[UnitTestsChannel].plugin_pointer} = plugins' \ plugins
           /\ \A c \in Channels \ {UnitTestsChannel} : handlers'[c] = handlers[c]
           /\ log' = log
           /\ inflight' = inflight
           /\ registrar' = registrar]_vars

\* Registration ran twice; the other channel still has no handler.
C6_Witness ==
    /\ created = 2
    /\ Cardinality(plugins) = 2
    /\ handlers[UnitTestsChannel] # None
    /\ \A c \in Channels \ {UnitTestsChannel} : handlers[c] = None

\* C7: a dispatch completes synchronously: a delivered call waits for
\* nothing (its dispatch is enabled and is the only step the system can
\* take), and that step answers the call before HandleMethodCall returns.
C7_Synchronous ==
    /\ [](inflight # None => ENABLED Dispatch)
    /\ [][inflight # None
            => /\ inflight' = None
               /\ Len(log') = Len(log) + 1
               /\ log'[Len(log')].handledBy = "HandleMethodCall"
               /\ log'[Len(log')].method_name = inflight.method_call.method_name
               /\ Len(log'[Len(log')].responses) >= 1
               /\ ~ log'[Len(log')].fault]_vars
    /\ [](\A i \in Handled : Len(log[i].responses) >= 1)

\* One call has returned answered and the next one is being dispatched.
C7_Witness ==
    /\ inflight # None
    /\ \E i \in Handled : Len(log[i].responses) = 1

\* C8: while the host has not torn the registrar down, the registry owns
\* every live plugin instance, and the instance an installed or running
\* callback refers to is owned by the registry and alive.
C8_PluginAlive ==
    registrar = "alive"
        => /\ alive = plugins
           /\ \A c \in Channels :
                handlers[c] # None
                    => handlers[c].plugin_pointer \in plugins \cap alive
           /\ inflight # None
                => inflight.handler.plugin_pointer \in plugins \cap alive

\* The callback of the second registration is running after an earlier
\* dispatch.
C8_Witness ==
    /\ inflight # None
    /\ inflight.handler.plugin_pointer = 2
    /\ Handled # {}
    /\ channelsDestroyed = 2

\* C9: the handler outlives the registration call and its channel object:
\* every call delivered on "windows_unit_tests" after a registration is
\* routed to HandleMethodCall and gets its response.
C9_HandlerOutlivesChannel ==
    /\ (registrar = "alive" /\ created >= 1)
            => /\ handlers[UnitTestsChannel] # None
               /\ channelsDestroyed = created
    /\ \A i \in 1..Len(log) :
           (log[i].channel = UnitTestsChannel /\ log[i].registrations >= 1)
               => /\ log[i].handledBy = "HandleMethodCall"
                  /\ log[i].responses =
                        IF log[i].method_name = PlaceholderName
                        THEN <<SuccessTrue>> ELSE <<NotImpl>>

\* Two calls on the channel were answered after the channel object was gone.
C9_Witness ==
    /\ channelsDestroyed >= 1
    /\ Len(log) >= 2
    /\ \A i \in 1..2 :
           /\ log[i].channel = UnitTestsChannel
           /\ log[i].registrations >= 1
           /\ log[i].handledBy = "HandleMethodCall"
    /\ log[1].responses = <<SuccessTrue>>
    /\ log[2].responses = <<NotImpl>>

====
